---- MODULE Spec2Model ----
(***************************************************************************)
(* Model of src/sqlite.py: the Row codec (serialize / deserialize), the     *)
(* page-backed Table (row_slot, insert_row, select_all), statement          *)
(* preparation and execution, and the command loop of main().               *)
(*                                                                          *)
(* Python values are modelled as follows.                                   *)
(*   str        a sequence of Unicode code points                           *)
(*   bytes      a sequence of integers 0..255                               *)
(*   None       the record PyNone                                           *)
(*   bytearray  the record [tag |-> "bytearray", data |-> <bytes>]          *)
(*   a call     a record with field exc: "" when the call returned, else    *)
(*              the name of the exception it raised                         *)
(*                                                                          *)
(* The sizes of the source (PAGE_SIZE, TABLE_MAX_PAGES, USERNAME_SIZE,      *)
(* EMAIL_SIZE) are read from the variable geom, which never changes after   *)
(* Init.  SpecSrc runs the codec and the addressing with the sizes of the   *)
(* source; Spec runs the whole program on a table scaled down by the Model* *)
(* bounds, so that filling the table and crossing a page are reachable.     *)
(***************************************************************************)
EXTENDS Integers, Sequences, FiniteSets, TLC

VARIABLES
    geom,        \* the sizes in force and the byte order of the platform
    table,       \* the Table object of main(): [num_rows, pages]
    user_input,  \* main()'s local user_input: a line, or Unbound
    status,      \* "running", "exited" (exit(0)) or "crashed" (uncaught exception)
    last,        \* what the latest loop iteration did (observation of the step)
    appended,    \* history: the rows of the insert_row calls that returned
    call         \* SpecSrc: the latest direct call of a function and its result

vars == <<geom, table, user_input, status, last, appended, call>>

-----------------------------------------------------------------------------
(* Sizes of the source.                                                     *)

SrcPageSize == 4096
SrcTableMaxPages == 100
SrcUsernameSize == 32
SrcEmailSize == 255

(* Sizes of the scaled-down table of Spec.                                  *)

ModelPageSize == 21
ModelTableMaxPages == 2
ModelUsernameSize == 2
ModelEmailSize == 2

\* Direct calls of insert_row with the sizes of the source stop at this count.
MaxSrcAppends == 15

ByteOrders == {"little", "big"}

SourceGeom(order) ==
    [PAGE_SIZE |-> SrcPageSize, TABLE_MAX_PAGES |-> SrcTableMaxPages,
     USERNAME_SIZE |-> SrcUsernameSize, EMAIL_SIZE |-> SrcEmailSize,
     byteorder |-> order]

ModelGeom(order) ==
    [PAGE_SIZE |-> ModelPageSize, TABLE_MAX_PAGES |-> ModelTableMaxPages,
     USERNAME_SIZE |-> ModelUsernameSize, EMAIL_SIZE |-> ModelEmailSize,
     byteorder |-> order]

PAGE_SIZE == geom.PAGE_SIZE
TABLE_MAX_PAGES == geom.TABLE_MAX_PAGES

ID_SIZE == 4
USERNAME_SIZE == geom.USERNAME_SIZE
EMAIL_SIZE == geom.EMAIL_SIZE
ROW_SIZE == ID_SIZE + USERNAME_SIZE + EMAIL_SIZE

ID_OFFSET == 0
USERNAME_OFFSET == ID_OFFSET + ID_SIZE
EMAIL_OFFSET == USERNAME_OFFSET + USERNAME_SIZE

ROWS_PER_PAGE == PAGE_SIZE \div ROW_SIZE
TABLE_MAX_ROWS == TABLE_MAX_PAGES * ROWS_PER_PAGE

-----------------------------------------------------------------------------
(* Python built-ins used by the source.                                     *)

PyNone == [tag |-> "None"]

Min(a, b) == IF a <= b THEN a ELSE b

Max(a, b) == IF a >= b THEN a ELSE b

SetMax(S) == CHOOSE x \in S : \A y \in S : y <= x

\* s[lo:hi] for 0 <= lo, 0 <= hi: Python clamps both ends to len(s).
PySlice(s, lo, hi) == SubSeq(s, Min(lo, Len(s)) + 1, Min(hi, Len(s)))

\* s[:n]
PyPrefix(s, n) == PySlice(s, 0, n)

\* bytes.ljust(width, fill)
Ljust(s, width, fill) ==
    IF Len(s) >= width THEN s ELSE s \o [i \in 1..(width - Len(s)) |-> fill]

\* bytes.rstrip(b'\x00')
RstripZero(s) ==
    LET nz == {i \in 1..Len(s) : s[i] # 0}
    IN  IF nz = {} THEN <<>> ELSE SubSeq(s, 1, SetMax(nz))

\* bytearray(n): n zero bytes
ByteArray(n) == [tag |-> "bytearray", data |-> [i \in 1..n |-> 0]]

\* list[index]: a negative index counts from the end; out of range raises IndexError.
ListIndexOk(index, len) == -len <= index /\ index < len

ListIndex(index, len) == IF index < 0 THEN index + len ELSE index

\* target[lo:hi] = value, for a bytearray target and 0 <= lo <= hi
SliceAssign(target, lo, hi, value) ==
    PySlice(target, 0, lo) \o value \o PySlice(target, Max(lo, hi), Len(target))

-----------------------------------------------------------------------------
(* str.encode('utf-8') and bytes.decode('utf-8').                           *)

IsSurrogate(cp) == 55296 <= cp /\ cp <= 57343

Utf8Char(cp) ==
    IF cp < 128 THEN <<cp>>
    ELSE IF cp < 2048 THEN <<192 + (cp \div 64), 128 + (cp % 64)>>
    ELSE IF cp < 65536 THEN
        <<224 + (cp \div 4096), 128 + ((cp \div 64) % 64), 128 + (cp % 64)>>
    ELSE <<240 + (cp \div 262144), 128 + ((cp \div 4096) % 64),
           128 + ((cp \div 64) % 64), 128 + (cp % 64)>>

\* The encodings of str[lo..hi], concatenated (split in halves: the recursion
\* stays shallow on long strings).
RECURSIVE Utf8Bytes(_, _, _)
Utf8Bytes(str, lo, hi) ==
    IF lo > hi THEN <<>>
    ELSE IF lo = hi THEN Utf8Char(str[lo])
    ELSE Utf8Bytes(str, lo, (lo + hi) \div 2)
         \o Utf8Bytes(str, (lo + hi) \div 2 + 1, hi)

\* str.encode('utf-8'): a lone surrogate raises UnicodeEncodeError.
Utf8Encode(str) ==
    IF \E i \in 1..Len(str) : IsSurrogate(str[i])
    THEN [exc |-> "UnicodeEncodeError", val |-> <<>>]
    ELSE [exc |-> "", val |-> Utf8Bytes(str, 1, Len(str))]

\* Length of the sequence a lead byte announces; 0 for a byte that cannot lead.
Utf8Need(b) ==
    IF b < 128 THEN 1
    ELSE IF 194 <= b /\ b <= 223 THEN 2
    ELSE IF 224 <= b /\ b <= 239 THEN 3
    ELSE IF 240 <= b /\ b <= 244 THEN 4
    ELSE 0

\* Range allowed for the second byte (no overlong forms, no surrogates, <= U+10FFFF).
Utf8SecondLo(b) == IF b = 224 THEN 160 ELSE IF b = 240 THEN 144 ELSE 128

Utf8SecondHi(b) == IF b = 237 THEN 159 ELSE IF b = 244 THEN 143 ELSE 191

IsCont(b) == 128 <= b /\ b <= 191

Utf8WellFormed(bs, i, n) ==
    /\ n > 0
    /\ i + n - 1 <= Len(bs)
    /\ n >= 2 => Utf8SecondLo(bs[i]) <= bs[i + 1] /\ bs[i + 1] <= Utf8SecondHi(bs[i])
    /\ \A k \in 2..(n - 1) : IsCont(bs[i + k])

Utf8CodePoint(bs, i, n) ==
    IF n = 1 THEN bs[i]
    ELSE IF n = 2 THEN (bs[i] - 192) * 64 + (bs[i + 1] - 128)
    ELSE IF n = 3 THEN
        (bs[i] - 224) * 4096 + (bs[i + 1] - 128) * 64 + (bs[i + 2] - 128)
    ELSE (bs[i] - 240) * 262144 + (bs[i + 1] - 128) * 4096
         + (bs[i + 2] - 128) * 64 + (bs[i + 3] - 128)

\* The strict decoder reads the characters left to right: each starts with a lead
\* byte and is well formed, and the next starts right after it.  A byte that is
\* no continuation byte can only start a character, so the bytes decode exactly
\* when the first byte and every other non-continuation byte start a
\* well-formed character that ends where the next non-continuation byte, or the
\* end of the data, is.
Utf8Valid(bs) ==
    /\ bs # <<>> => ~IsCont(bs[1])
    /\ \A i \in 1..Len(bs) :
           ~IsCont(bs[i]) =>
               /\ Utf8WellFormed(bs, i, Utf8Need(bs[i]))
               /\ i + Utf8Need(bs[i]) <= Len(bs) => ~IsCont(bs[i + Utf8Need(bs[i])])

\* The code points of the characters that start in bs[lo..hi], for valid bs.
RECURSIVE Utf8CodePoints(_, _, _)
Utf8CodePoints(bs, lo, hi) ==
    IF lo > hi THEN <<>>
    ELSE IF lo = hi THEN
        IF IsCont(bs[lo]) THEN <<>> ELSE <<Utf8CodePoint(bs, lo, Utf8Need(bs[lo]))>>
    ELSE Utf8CodePoints(bs, lo, (lo + hi) \div 2)
         \o Utf8CodePoints(bs, (lo + hi) \div 2 + 1, hi)

\* bytes.decode('utf-8'): an ill-formed or cut-off sequence raises UnicodeDecodeError.
Utf8Decode(bs) ==
    IF Utf8Valid(bs) THEN [exc |-> "", val |-> Utf8CodePoints(bs, 1, Len(bs))]
    ELSE [exc |-> "UnicodeDecodeError", val |-> <<>>]

-----------------------------------------------------------------------------------------------------------------------------------------------------
(* Python's int is unbounded: it is modelled by its sign and its magnitude  *)
(* in base 256, least significant digit first, without leading zero digits  *)
(* (zero is the empty magnitude).                                           *)

PyLong(neg, mag) == [neg |-> neg, mag |-> mag]

PyZero == PyLong(FALSE, <<>>)

\* mag * m + carry
RECURSIVE MulAdd(_, _, _)
MulAdd(mag, m, carry) ==
    IF mag = <<>>
    THEN IF carry = 0 THEN <<>>
         ELSE <<carry % 256>> \o MulAdd(<<>>, m, carry \div 256)
    ELSE LET v == Head(mag) * m + carry
         IN  <<v % 256>> \o MulAdd(Tail(mag), m, v \div 256)

(* struct.pack("I", n) and struct.unpack("I", data): the native unsigned    *)
(* int, four bytes in the byte order of the platform.  pack raises          *)
(* struct.error unless 0 <= n <= 4294967295, i.e. n fits four digits.       *)

Reverse(s) == [i \in 1..Len(s) |-> s[Len(s) + 1 - i]]

StructPackI(n) ==
    IF n.neg \/ Len(n.mag) > ID_SIZE
    THEN [exc |-> "struct.error", val |-> <<>>]
    ELSE LET le == Ljust(n.mag, ID_SIZE, 0)
         IN  [exc |-> "",
              val |-> IF geom.byteorder = "little" THEN le ELSE Reverse(le)]

StructUnpackI(data) ==
    IF Len(data) # ID_SIZE
    THEN [exc |-> "struct.error", val |-> PyZero]
    ELSE LET le == IF geom.byteorder = "little" THEN data ELSE Reverse(data)
         IN  [exc |-> "", val |-> PyLong(FALSE, RstripZero(le))]

-----------------------------------------------------------------------------------------------------------------------------------------------------
(* class Row.  A value computed once and used several times is handed to a  *)
(* helper operator as a parameter.                                          *)

Row(id, username, email) == [id |-> id, username |-> username, email |-> email]

Raised(exc, val) == [exc |-> exc, val |-> val]

Returned(val) == [exc |-> "", val |-> val]

\* Mutant of Field: the encoded text is padded but not cut to the width.
Field_nocut(encoded, width) == Ljust(encoded, width, 0)

\* Mutant of Field: the slice keeps one byte less than the width.
Field_short(encoded, width) == Ljust(PyPrefix(encoded, width - 1), width, 0)

\* bytes[:width].ljust(width, b'\x00')
Field(encoded, width) == Ljust(PyPrefix(encoded, width), width, 0)

SerializePacked(packed_id, enc_username, enc_email) ==
    IF packed_id.exc # "" THEN Raised(packed_id.exc, <<>>)
    ELSE IF enc_username.exc # "" THEN Raised(enc_username.exc, <<>>)
    ELSE IF enc_email.exc # "" THEN Raised(enc_email.exc, <<>>)
    ELSE Returned(packed_id.val \o Field(enc_username.val, USERNAME_SIZE)
                  \o Field(enc_email.val, EMAIL_SIZE))

\* Row.serialize: the exceptions of struct.pack and str.encode propagate.
serialize(row) ==
    SerializePacked(StructPackI(row.id), Utf8Encode(row.username),
                    Utf8Encode(row.email))

NoRow == Row(PyZero, <<>>, <<>>)

DeserializeUnpacked(id_val, username, email) ==
    IF id_val.exc # "" THEN Raised(id_val.exc, NoRow)
    ELSE IF username.exc # "" THEN Raised(username.exc, NoRow)
    ELSE IF email.exc # "" THEN Raised(email.exc, NoRow)
    ELSE Returned(Row(id_val.val, username.val, email.val))

\* Row.deserialize: the exceptions of struct.unpack and bytes.decode propagate.
deserialize(data) ==
    DeserializeUnpacked(
        StructUnpackI(PySlice(data, ID_OFFSET, ID_OFFSET + ID_SIZE)),
        Utf8Decode(RstripZero(
            PySlice(data, USERNAME_OFFSET, USERNAME_OFFSET + USERNAME_SIZE))),
        Utf8Decode(RstripZero(PySlice(data, EMAIL_OFFSET, EMAIL_OFFSET + EMAIL_SIZE))))

-----------------------------------------------------------------------------
(* class Table.  The functions take the table and return it as they leave   *)
(* it, also when they raise.                                                *)

\* Mutant of NewTable: the count starts at one.
NewTable_one ==
    [num_rows |-> 1, pages |-> [p \in 0..(TABLE_MAX_PAGES - 1) |-> PyNone]]

\* Table.__init__
NewTable ==
    [num_rows |-> 0, pages |-> [p \in 0..(TABLE_MAX_PAGES - 1) |-> PyNone]]

IsNone(page) == page.tag = "None"

AllocatedPages(t) == {p \in DOMAIN t.pages : ~IsNone(t.pages[p])}

Outcome(exc, t, val) == [exc |-> exc, table |-> t, val |-> val]

\* Mutant of EnsurePage: the page is created without the test for None.
EnsurePage_always(t, slot) == [t EXCEPT !.pages[slot] = ByteArray(PAGE_SIZE)]

\* Mutant of EnsurePage: the new page has the size of one row.
EnsurePage_rowsized(t, slot) ==
    IF IsNone(t.pages[slot])
    THEN [t EXCEPT !.pages[slot] = ByteArray(ROW_SIZE)]
    ELSE t

\* row_slot, lines 82-83: the page is created when its slot holds None.
EnsurePage(t, slot) ==
    IF IsNone(t.pages[slot])
    THEN [t EXCEPT !.pages[slot] = ByteArray(PAGE_SIZE)]
    ELSE t

\* Mutant of RowSlotAt: the byte offset is taken from row_num, not from its
\* remainder in the page.
RowSlotAt_nomod(t, row_num, page_num) ==
    IF ~ListIndexOk(page_num, TABLE_MAX_PAGES)
    THEN [exc |-> "IndexError", table |-> t, val |-> <<>>]
    ELSE [exc |-> "", table |-> t, val |-> <<page_num, row_num * ROW_SIZE>>]

RowSlotAt(t, row_num, page_num) ==
    IF ~ListIndexOk(page_num, TABLE_MAX_PAGES)
    THEN Outcome("IndexError", t, <<>>)
    ELSE Outcome("", EnsurePage(t, ListIndex(page_num, TABLE_MAX_PAGES)),
                 <<page_num, (row_num % ROWS_PER_PAGE) * ROW_SIZE>>)

\* Table.row_slot: val is the tuple (page_num, byte_offset).
row_slot(t, row_num) == RowSlotAt(t, row_num, row_num \div ROWS_PER_PAGE)

\* Mutant of WriteRow: the row is written and num_rows is left as it was.
WriteRow_nocount(t, p, byte_offset, bytes) ==
    IF IsNone(t.pages[p]) THEN Outcome("TypeError", t, <<>>)
    ELSE Outcome("",
                 [t EXCEPT !.pages[p].data =
                      SliceAssign(@, byte_offset, byte_offset + ROW_SIZE, bytes)],
                 <<>>)

\* Mutant of WriteRow: the slice assigned to ends one byte early.
WriteRow_shortslice(t, p, byte_offset, bytes) ==
    IF IsNone(t.pages[p]) THEN Outcome("TypeError", t, <<>>)
    ELSE Outcome("",
                 [num_rows |-> t.num_rows + 1,
                  pages |-> [t.pages EXCEPT ![p].data =
                                SliceAssign(@, byte_offset,
                                            byte_offset + ROW_SIZE - 1, bytes)]],
                 <<>>)

\* Mutant of WriteRow: the count goes up by two.
WriteRow_double(t, p, byte_offset, bytes) ==
    IF IsNone(t.pages[p]) THEN Outcome("TypeError", t, <<>>)
    ELSE Outcome("",
                 [num_rows |-> t.num_rows + 2,
                  pages |-> [t.pages EXCEPT ![p].data =
                                SliceAssign(@, byte_offset, byte_offset + ROW_SIZE,
                                            bytes)]],
                 <<>>)

\* insert_row, lines 94-95: the slice assignment and the increment.
WriteRow(t, p, byte_offset, bytes) ==
    IF IsNone(t.pages[p]) THEN Outcome("TypeError", t, <<>>)
    ELSE Outcome("",
                 [num_rows |-> t.num_rows + 1,
                  pages |-> [t.pages EXCEPT ![p].data =
                                SliceAssign(@, byte_offset, byte_offset + ROW_SIZE,
                                            bytes)]],
                 <<>>)

InsertSerialized(t, page_num, byte_offset, serialized) ==
    IF serialized.exc # "" THEN Outcome(serialized.exc, t, <<>>)
    ELSE WriteRow(t, ListIndex(page_num, TABLE_MAX_PAGES), byte_offset, serialized.val)

InsertAt(slot, row) ==
    IF slot.exc # "" THEN Outcome(slot.exc, slot.table, <<>>)
    ELSE InsertSerialized(slot.table, slot.val[1], slot.val[2], serialize(row))

\* Mutant of insert_row: the row is written one slot further on.
insert_row_next(t, row) == InsertAt(row_slot(t, t.num_rows + 1), row)

\* Mutant of insert_row: every row is written to the slot of row 0.
insert_row_first(t, row) == InsertAt(row_slot(t, 0), row)

\* Table.insert_row
insert_row(t, row) == InsertAt(row_slot(t, t.num_rows), row)

\* select_all, line 101: the bytes of the row in its page.
RowData(t, page_num, byte_offset) ==
    PySlice(t.pages[ListIndex(page_num, TABLE_MAX_PAGES)].data,
            byte_offset, byte_offset + ROW_SIZE)

\* Table.select_all, from loop index i on, with the rows collected so far.
RECURSIVE SelectLoop(_, _, _)
RECURSIVE SelectRow(_, _, _, _)
RECURSIVE SelectAt(_, _, _)

SelectRow(t, i, rows, row) ==
    IF row.exc # "" THEN Outcome(row.exc, t, <<>>)
    ELSE SelectLoop(t, i + 1, Append(rows, row.val))

SelectAt(slot, i, rows) ==
    IF slot.exc # "" THEN Outcome(slot.exc, slot.table, <<>>)
    ELSE SelectRow(slot.table, i, rows,
                   deserialize(RowData(slot.table, slot.val[1], slot.val[2])))

SelectLoop(t, i, rows) ==
    IF i >= t.num_rows THEN Outcome("", t, rows)
    ELSE SelectAt(row_slot(t, i), i, rows)

\* Table.select_all
select_all(t) == SelectLoop(t, 0, <<>>)

-----
(* The command layer.  A line is input().strip() as the sequence of its     *)
(* whitespace-separated words (what str.split() returns); a word is a str.  *)

S_insert == <<105, 110, 115, 101, 114, 116>>
S_select == <<115, 101, 108, 101, 99, 116>>
S_dot == <<46>>
S_exit == <<46, 101, 120, 105, 116>>

StartsWith(str, prefix) ==
    Len(str) >= Len(prefix) /\ SubSeq(str, 1, Len(prefix)) = prefix

\* line.startswith(prefix), for a prefix without whitespace
LineStartsWith(line, prefix) == line # <<>> /\ StartsWith(line[1], prefix)

IsDigit(cp) == 48 <= cp /\ cp <= 57

\* The value of a digit string, most significant digit first.
RECURSIVE DecimalValue(_)
DecimalValue(digits) ==
    IF digits = <<>> THEN <<>>
    ELSE MulAdd(DecimalValue(SubSeq(digits, 1, Len(digits) - 1)), 10,
                digits[Len(digits)] - 48)

\* int(word) for a word of ASCII characters: an optional sign and decimal digits;
\* anything else raises ValueError.
PyInt(word) ==
    LET signed == word # <<>> /\ word[1] \in {43, 45}
        digits == IF signed THEN Tail(word) ELSE word
    IN  IF digits = <<>> \/ \E i \in 1..Len(digits) : ~IsDigit(digits[i])
        THEN [exc |-> "ValueError", val |-> PyZero]
        ELSE LET mag == DecimalValue(digits)
             IN  [exc |-> "",
                  val |-> PyLong(signed /\ word[1] = 45 /\ mag # <<>>, mag)]

Statement(statement_type, row) == [type |-> statement_type, row_to_insert |-> row]

NoStatement == Statement("None", NoRow)

PrepareInsert(parts, id_val) ==
    IF id_val.exc # "" \/ Len(parts) < 4
    THEN [result |-> "SYNTAX_ERROR", statement |-> NoStatement]
    ELSE [result |-> "SUCCESS",
          statement |-> Statement("INSERT", Row(id_val.val, parts[3], parts[4]))]

\* prepare_statement: the pair (PrepareResult, Statement or None).  parts[1] of
\* the source is parts[2] here; an IndexError or ValueError gives SYNTAX_ERROR.
prepare_statement(input_string) ==
    IF LineStartsWith(input_string, S_insert) THEN
        PrepareInsert(input_string,
                      IF Len(input_string) >= 2 THEN PyInt(input_string[2])
                      ELSE Raised("IndexError", PyZero))
    ELSE IF LineStartsWith(input_string, S_select) THEN
        [result |-> "SUCCESS", statement |-> Statement("SELECT", NoRow)]
    ELSE [result |-> "UNRECOGNIZED_STATEMENT", statement |-> NoStatement]

Executed(done, printed) ==
    [exc |-> done.exc, table |-> done.table,
     val |-> IF done.exc = "" THEN "SUCCESS" ELSE "",
     printed |-> IF printed THEN done.val ELSE <<>>]

\* Mutant of execute_statement: the capacity test is > instead of >=.
execute_statement_gt(statement, t) ==
    IF statement.type = "INSERT" THEN
        IF t.num_rows > TABLE_MAX_ROWS
        THEN [exc |-> "", table |-> t, val |-> "TABLE_FULL", printed |-> <<>>]
        ELSE Executed(insert_row(t, statement.row_to_insert), FALSE)
    ELSE IF statement.type = "SELECT" THEN Executed(select_all(t), TRUE)
    ELSE [exc |-> "", table |-> t, val |-> "None", printed |-> <<>>]

\* Mutant of execute_statement: a refused insert is counted in num_rows.
execute_statement_counted(statement, t) ==
    IF statement.type = "INSERT" THEN
        IF t.num_rows >= TABLE_MAX_ROWS
        THEN [exc |-> "", table |-> [t EXCEPT !.num_rows = @ + 1],
              val |-> "TABLE_FULL", printed |-> <<>>]
        ELSE Executed(insert_row(t, statement.row_to_insert), FALSE)
    ELSE IF statement.type = "SELECT" THEN Executed(select_all(t), TRUE)
    ELSE [exc |-> "", table |-> t, val |-> "None", printed |-> <<>>]

\* execute_statement: val is the ExecuteResult, printed the rows it printed.
execute_statement(statement, t) ==
    IF statement.type = "INSERT" THEN
        IF t.num_rows >= TABLE_MAX_ROWS
        THEN [exc |-> "", table |-> t, val |-> "TABLE_FULL", printed |-> <<>>]
        ELSE Executed(insert_row(t, statement.row_to_insert), FALSE)
    ELSE IF statement.type = "SELECT" THEN Executed(select_all(t), TRUE)
    ELSE [exc |-> "", table |-> t, val |-> "None", printed |-> <<>>]

\* do_meta_command: exit(0) on '.exit', else UNRECOGNIZED_COMMAND.
do_meta_command(command) ==
    IF command = <<S_exit>> THEN "exit" ELSE "UNRECOGNIZED_COMMAND"

\* user_input before the first input() returned
Unbound == << <<-1>> >>

Idle(t, path) ==
    [status |-> "running", table |-> t, path |-> path, type |-> "None",
     row |-> NoRow, result |-> "", exc |-> "", printed |-> <<>>]

AfterExecute(statement, ex) ==
    [status |-> IF ex.exc = "" THEN "running" ELSE "crashed",
     table |-> ex.table, path |-> "execute", type |-> statement.type,
     row |-> statement.row_to_insert, result |-> ex.val, exc |-> ex.exc,
     printed |-> ex.printed]

AfterPrepare(prep, t) ==
    IF prep.result = "SYNTAX_ERROR" THEN Idle(t, "syntax_error")
    ELSE IF prep.result = "UNRECOGNIZED_STATEMENT"
    THEN Idle(t, "unrecognized_statement")
    ELSE AfterExecute(prep.statement, execute_statement(prep.statement, t))

\* One iteration of main()'s loop once input() returned or raised EOFError, with
\* user_input as it then is.  path names the branch the iteration took.
LoopBody(input, t) ==
    IF input = Unbound
    THEN [Idle(t, "unbound") EXCEPT !.status = "crashed", !.exc = "UnboundLocalError"]
    ELSE IF LineStartsWith(input, S_dot) THEN
        IF do_meta_command(input) = "exit"
        THEN [Idle(t, "exit") EXCEPT !.status = "exited"]
        ELSE Idle(t, "unrecognized_command")
    ELSE AfterPrepare(prepare_statement(input), t)

-----------------------------------------------------------------------------
(* Inputs.                                                                  *)

Rep(cp, n) == [i \in 1..n |-> cp]

D_1 == <<49>>
D_2 == <<50>>
D_258 == <<50, 53, 56>>
D_minus1 == <<45, 49>>
D_uintmax == <<52, 50, 57, 52, 57, 54, 55, 50, 57, 53>>
D_uintmax1 == <<52, 50, 57, 52, 57, 54, 55, 50, 57, 54>>

\* The lines typed into the scaled-down table of Spec.  Words are sized by the
\* field widths in force: a plain row; the largest id with a username one byte
\* over the width and an email ending in a NUL character; a username whose last
\* character (U+00E9, two bytes) straddles the width; a username of exactly the
\* width; two ids struct.pack rejects (-1 and 4294967296).
InsertLines ==
    { <<S_insert, D_1, <<97>>, <<98>>>>,
      <<S_insert, D_uintmax, Rep(97, USERNAME_SIZE + 1), <<233, 0>>>>,
      <<S_insert, D_2, Rep(97, USERNAME_SIZE - 1) \o <<233>>, <<98>>>>,
      <<S_insert, D_258, Rep(97, USERNAME_SIZE), <<99>>>>,
      <<S_insert, D_minus1, <<97>>, <<98>>>>,
      <<S_insert, D_uintmax1, <<97>>, <<98>>>> }

OtherLines ==
    { <<S_select>>,
      <<S_insert, <<120>>, <<97>>, <<98>>>>,
      <<S_insert, D_1, <<97>>>>,
      <<>>,
      <<<<46, 104>>>>,
      <<S_exit>> }

Lines == InsertLines \cup OtherLines

NoCall == [fn |-> "", arg |-> <<>>, exc |-> "", val |-> <<>>, back |-> <<>>]

-----------------------------------------------------------------------------
(* The program: main().                                                     *)

Init ==
    /\ geom \in {ModelGeom(order) : order \in ByteOrders}
    /\ table = NewTable
    /\ user_input = Unbound
    /\ status = "running"
    /\ last = [read |-> "", path |-> "", type |-> "None", row |-> NoRow,
               result |-> "", exc |-> "", printed |-> <<>>]
    /\ appended = <<>>
    /\ call = NoCall

Record(read, body) ==
    /\ table' = body.table
    /\ status' = body.status
    /\ last' = [read |-> read, path |-> body.path, type |-> body.type,
                row |-> body.row, result |-> body.result, exc |-> body.exc,
                printed |-> body.printed]
    /\ appended' = IF body.type = "INSERT" /\ body.result = "SUCCESS"
                   THEN Append(appended, body.row) ELSE appended

Iterate(read, input) ==
    /\ user_input' = input
    /\ Record(read, LoopBody(input, table))
    /\ UNCHANGED <<geom, call>>

\* input() returns a line.
ReadLine ==
    /\ status = "running"
    /\ \E line \in Lines : Iterate("line", line)

\* input() raises EOFError: main() prints a message and goes on with user_input
\* as the previous iteration left it.
ReadEof ==
    /\ status = "running"
    /\ Iterate("eof", user_input)

Next == ReadLine \/ ReadEof

Spec == Init /\ [][Next]_vars

-----------------------------------------------------------------------------
(* Direct calls of the codec and of row_slot, with the sizes of the source. *)

SrcIds ==
    { PyZero, PyLong(FALSE, <<1>>), PyLong(FALSE, <<2, 1>>),
      PyLong(FALSE, <<255, 255, 255, 255>>),
      PyLong(TRUE, <<1>>), PyLong(FALSE, <<0, 0, 0, 0, 1>>) }

\* U+00E9 takes two bytes, U+20AC three, U+1F600 four; U+D800 is a surrogate.
SrcUsernames ==
    { <<>>, <<97>>, Rep(97, USERNAME_SIZE - 1), Rep(97, USERNAME_SIZE),
      Rep(97, USERNAME_SIZE + 1), Rep(97, USERNAME_SIZE + 8),
      Rep(97, USERNAME_SIZE - 1) \o <<233>>, Rep(233, USERNAME_SIZE \div 2),
      <<97, 0>>, <<97, 0, 98>>, <<8364>>, <<128512>>, <<55296>> }

SrcEmails ==
    { <<>>, <<98>>, Rep(98, EMAIL_SIZE), Rep(98, EMAIL_SIZE + 1),
      Rep(98, EMAIL_SIZE - 1) \o <<233>>, <<0>> }

SrcRows ==
    { Row(id, username, email) :
          id \in SrcIds, username \in SrcUsernames, email \in SrcEmails }

InitSrc ==
    /\ geom \in {SourceGeom(order) : order \in ByteOrders}
    /\ table = NewTable
    /\ user_input = Unbound
    /\ status = "running"
    /\ last = [read |-> "", path |-> "", type |-> "None", row |-> NoRow,
               result |-> "", exc |-> "", printed |-> <<>>]
    /\ appended = <<>>
    /\ call = NoCall

NoBack == Raised("", NoRow)

\* deserialize(row.serialize()), when serialize returned
RoundTrip(row, serialized) ==
    [fn |-> "serialize", arg |-> row, exc |-> serialized.exc, val |-> serialized.val,
     back |-> IF serialized.exc = "" THEN deserialize(serialized.val) ELSE NoBack]

\* The codec reads neither the table nor what was called before: each row is
\* put through it once, from the initial state.
CallCodec ==
    /\ call = NoCall
    /\ \E row \in SrcRows : call' = RoundTrip(row, serialize(row))
    /\ UNCHANGED <<geom, table, user_input, status, last, appended>>

Addressed(row_num, slot) ==
    /\ call' = [fn |-> "row_slot", arg |-> row_num, exc |-> slot.exc,
                val |-> slot.val, back |-> <<>>]
    /\ table' = slot.table

\* table.row_slot(row_num) on a fresh table, once more for the row just
\* addressed, whose page now exists, or after insert_row for a stored row or
\* for the next one.
CallRowSlot ==
    /\ call.fn # "serialize"
    /\ \/ /\ AllocatedPages(table) = {}
          /\ \E row_num \in 0..TABLE_MAX_ROWS :
                 Addressed(row_num, row_slot(table, row_num))
       \/ /\ call.fn = "row_slot"
          /\ AllocatedPages(table) # {}
          /\ Addressed(call.arg, row_slot(table, call.arg))
       \/ /\ call.fn = "insert_row"
          /\ \E row_num \in 0..table.num_rows :
                 Addressed(row_num, row_slot(table, row_num))
    /\ UNCHANGED <<geom, user_input, status, last, appended>>

\* Rows for direct calls of insert_row: one whose 291 bytes are all non-zero,
\* and one whose id struct.pack refuses.
SrcInsertRows ==
    { Row(PyLong(FALSE, <<255, 255, 255, 255>>), Rep(97, USERNAME_SIZE),
          Rep(98, EMAIL_SIZE)),
      Row(PyLong(TRUE, <<1>>), <<97>>, <<98>>) }

Inserted(row, ins) ==
    /\ call' = [fn |-> "insert_row", arg |-> row, exc |-> ins.exc,
                val |-> <<>>, back |-> <<>>]
    /\ table' = ins.table

\* table.insert_row(row), one call after another from the fresh table: page 0
\* is filled and the first slot of page 1 is written.
CallInsertRow ==
    /\ call.fn \in {"", "insert_row"}
    /\ table.num_rows < MaxSrcAppends
    /\ \E row \in SrcInsertRows : Inserted(row, insert_row(table, row))
    /\ UNCHANGED <<geom, user_input, status, last, appended>>

\* Table()
CallNewTable ==
    /\ call.fn # "serialize"
    /\ table' = NewTable
    /\ call' = [NoCall EXCEPT !.fn = "Table"]
    /\ UNCHANGED <<geom, user_input, status, last, appended>>

NextSrc == CallCodec \/ CallRowSlot \/ CallNewTable \/ CallInsertRow

SpecSrc == InitSrc /\ [][NextSrc]_vars

-----------------------------------------------------------------------------
(* Properties.                                                              *)

Appending == last.path = "execute" /\ last.type = "INSERT"

Scanning == last.path = "execute" /\ last.type = "SELECT"

IsUint32(n) == ~n.neg /\ Len(n.mag) <= ID_SIZE

Encodable(str) == \A i \in 1..Len(str) : ~IsSurrogate(str[i])

\* A record the interface accepts: an unsigned 32-bit id and encodable text.
ValidRow(row) ==
    IsUint32(row.id) /\ Encodable(row.username) /\ Encodable(row.email)

\* C1: a scan returns exactly num_rows records, the i-th being
\* decode(encode(r_i)) for the record r_i of the i-th successful append.
C1_ScanReturnsAppendedRows ==
    Scanning =>
        /\ last.exc = ""
        /\ Len(last.printed) = table.num_rows
        /\ Len(appended) = table.num_rows
        /\ \A i \in 1..Len(appended) :
               last.printed[i] = deserialize(serialize(appended[i]).val).val

\* C2: an append made when num_rows = TABLE_MAX_ROWS returns TABLE_FULL and
\* changes neither num_rows nor any page slot nor any page byte, and a scan
\* gives the same records after it as before it.
C2_FullAppendChangesNothing ==
    [][(Appending' /\ table.num_rows = TABLE_MAX_ROWS) =>
           /\ last'.result = "TABLE_FULL"
           /\ last'.exc = ""
           /\ table'.num_rows = table.num_rows
           /\ AllocatedPages(table') = AllocatedPages(table)
           /\ table'.pages = table.pages
           /\ table' = table \/ select_all(table') = select_all(table)]_vars

C2_Witness ==
    Appending /\ last.result = "TABLE_FULL" /\ table.num_rows = TABLE_MAX_ROWS

\* C3: an append of a valid record returns SUCCESS and raises num_rows by one
\* while num_rows < TABLE_MAX_ROWS, and returns TABLE_FULL and leaves num_rows
\* at TABLE_MAX_ROWS from then on, whatever scans and refused appends came before.
C3_AppendsSucceedUpToCapacity ==
    [][(Appending' /\ ValidRow(last'.row)) =>
           IF table.num_rows < TABLE_MAX_ROWS
           THEN /\ last'.result = "SUCCESS"
                /\ table'.num_rows = table.num_rows + 1
           ELSE /\ last'.result = "TABLE_FULL"
                /\ table.num_rows = TABLE_MAX_ROWS
                /\ table'.num_rows = TABLE_MAX_ROWS
                /\ status' = "running"]_vars

C3_Witness ==
    /\ Appending
    /\ last.result = "SUCCESS"
    /\ table.num_rows = TABLE_MAX_ROWS
    /\ Len(appended) = TABLE_MAX_ROWS

\* C4: 0 <= num_rows <= TABLE_MAX_ROWS in every reachable state.
C4_NumRowsInRange == 0 <= table.num_rows /\ table.num_rows <= TABLE_MAX_ROWS

C4_Witness ==
    Appending /\ last.read = "eof" /\ table.num_rows = TABLE_MAX_ROWS

\* The precondition of the round trip: an unsigned 32-bit id, and text that
\* encodes to at most the field width with no zero byte.
FitsField(str, width) ==
    /\ Encodable(str)
    /\ Len(Utf8Encode(str).val) <= width
    /\ \A i \in 1..Len(Utf8Encode(str).val) : Utf8Encode(str).val[i] # 0

RoundTrips(row) ==
    /\ IsUint32(row.id)
    /\ FitsField(row.username, USERNAME_SIZE)
    /\ FitsField(row.email, EMAIL_SIZE)

\* C5: decode(encode(r)) has the id, username and email of r, for every record r
\* with an unsigned 32-bit id and text that fits its field and has no zero byte.
C5_CodecRoundTrip ==
    (call.fn = "serialize" /\ RoundTrips(call.arg)) =>
        /\ call.exc = ""
        /\ call.back.exc = ""
        /\ call.back.val.id = call.arg.id
        /\ call.back.val.username = call.arg.username
        /\ call.back.val.email = call.arg.email

\* A round trip of a record whose fields are filled to the last byte, the
\* username ending in a two-byte character.
C5_Witness ==
    /\ call.fn = "serialize"
    /\ RoundTrips(call.arg)
    /\ call.arg.id = PyLong(FALSE, <<255, 255, 255, 255>>)
    /\ call.arg.username = Rep(233, USERNAME_SIZE \div 2)
    /\ call.arg.email = Rep(98, EMAIL_SIZE)
    /\ call.back.val = call.arg

\* C6: every append and every scan returns a value; none ends in an exception.
C6_NoUncaughtException == (Appending \/ Scanning) => last.exc = ""

\* C7: a page slot is allocated exactly when it holds a stored record:
\* page p is allocated iff p * ROWS_PER_PAGE < num_rows.
C7_AllocatedIffHoldsRecord ==
    \A p \in DOMAIN table.pages :
        ~IsNone(table.pages[p]) <=> p * ROWS_PER_PAGE < table.num_rows

\* C8: the page of every stored row is allocated: for 0 <= i < num_rows the
\* slot i div ROWS_PER_PAGE is not None.
C8_StoredRowsHavePages ==
    \A i \in 0..(table.num_rows - 1) :
        /\ (i \div ROWS_PER_PAGE) \in DOMAIN table.pages
        /\ ~IsNone(table.pages[i \div ROWS_PER_PAGE])

\* A scan that returned the rows of a table whose rows span two pages.
C8_Witness ==
    /\ Scanning
    /\ last.exc = ""
    /\ table.num_rows > ROWS_PER_PAGE
    /\ Len(last.printed) = table.num_rows

\* C9: row_slot(i) returns (i div ROWS_PER_PAGE, (i mod ROWS_PER_PAGE) * ROW_SIZE)
\* for 0 <= i < TABLE_MAX_ROWS; with the sizes of the source ROWS_PER_PAGE is 14
\* and ROW_SIZE 291, so 0 -> (0, 0), 13 -> (0, 3783), 14 -> (1, 0).
C9_RowSlotAddress ==
    (call.fn = "row_slot" /\ call.arg < TABLE_MAX_ROWS) =>
        /\ call.exc = ""
        /\ call.val = <<call.arg \div ROWS_PER_PAGE,
                        (call.arg % ROWS_PER_PAGE) * ROW_SIZE>>
        /\ ROWS_PER_PAGE = 14 /\ ROW_SIZE = 291
        /\ call.arg = 0 => call.val = <<0, 0>>
        /\ call.arg = 13 => call.val = <<0, 3783>>
        /\ call.arg = 14 => call.val = <<1, 0>>

C9_Witness == call.fn = "row_slot" /\ call.arg = 14 /\ call.val = <<1, 0>>

\* C10: a scan leaves num_rows, the allocated page slots and the bytes of
\* every page as they were.
C10_ScanChangesNothing ==
    [][Scanning' =>
           /\ table'.num_rows = table.num_rows
           /\ AllocatedPages(table') = AllocatedPages(table)
           /\ table'.pages = table.pages]_vars

\* A scan of a full table, which addressed every page.
C10_Witness ==
    Scanning /\ last.exc = "" /\ table.num_rows = TABLE_MAX_ROWS

\* The width bytes after offset are the leading bytes of encoded, then zeros.
FieldIs(bytes, offset, width, encoded) ==
    \A k \in 1..width :
        bytes[offset + k] = IF k <= Len(encoded) THEN encoded[k] ELSE 0

\* C11: serialize returns exactly ROW_SIZE = ID_SIZE + USERNAME_SIZE +
\* EMAIL_SIZE = 291 bytes whatever the lengths of username and email: each
\* text field holds the first bytes of its UTF-8 encoding, cut at the width of
\* the field, and zero bytes after a shorter encoding.
C11_SerializeLayout ==
    (call.fn = "serialize" /\ ValidRow(call.arg)) =>
        /\ call.exc = ""
        /\ Len(call.val) = ROW_SIZE
        /\ ROW_SIZE = ID_SIZE + USERNAME_SIZE + EMAIL_SIZE
        /\ ROW_SIZE = 291
        /\ FieldIs(call.val, USERNAME_OFFSET, USERNAME_SIZE,
                   Utf8Encode(call.arg.username).val)
        /\ FieldIs(call.val, EMAIL_OFFSET, EMAIL_SIZE,
                   Utf8Encode(call.arg.email).val)

\* A username of 40 bytes is stored as its first 32 bytes.
C11_Witness ==
    /\ call.fn = "serialize"
    /\ call.exc = ""
    /\ call.arg.username = Rep(97, USERNAME_SIZE + 8)
    /\ Len(Utf8Encode(call.arg.username).val) = 40
    /\ Len(call.val) = 291
    /\ SubSeq(call.val, 5, 36) = Rep(97, 32)
    /\ call.arg.email = <<98>>
    /\ SubSeq(call.val, 37, 291) = <<98>> \o Rep(0, 254)

\* C12: num_rows starts at 0 and never decreases: a step leaves it as it is or
\* adds exactly 1, and it adds 1 only when the step is an insert that ended
\* with SUCCESS.
C12_NumRowsGrowsByAppend ==
    /\ table.num_rows = 0
    /\ [][\/ table'.num_rows = table.num_rows
          \/ /\ table'.num_rows = table.num_rows + 1
             /\ Appending'
             /\ last'.result = "SUCCESS"]_vars

\* A third insert has succeeded, after a step that left the count at 2.
C12_Witness ==
    /\ Appending
    /\ last.result = "SUCCESS"
    /\ table.num_rows = 3
    /\ Len(appended) = 3

\* Byte b (counted from 1) of page p lies in the slot of row n.
InSlot(p, b, n) ==
    /\ p = n \div ROWS_PER_PAGE
    /\ b > (n % ROWS_PER_PAGE) * ROW_SIZE
    /\ b <= (n % ROWS_PER_PAGE) * ROW_SIZE + ROW_SIZE

\* A page that does not exist yet holds no byte other than zero.
PageByte(t, p, b) == IF IsNone(t.pages[p]) THEN 0 ELSE t.pages[p].data[b]

\* The bytes stored for row i; <<>> when its page does not exist.
StoredBytes(t, i) ==
    IF IsNone(t.pages[i \div ROWS_PER_PAGE]) THEN <<>>
    ELSE RowData(t, i \div ROWS_PER_PAGE, (i % ROWS_PER_PAGE) * ROW_SIZE)

\* From t to u nothing but the bytes of the slot of row n has changed.
OnlySlotChanged(t, u, n) ==
    \A p \in DOMAIN t.pages :
        IF p = n \div ROWS_PER_PAGE
        THEN /\ ~IsNone(u.pages[p])
             /\ Len(u.pages[p].data) = PAGE_SIZE
             /\ \A b \in 1..PAGE_SIZE :
                    InSlot(p, b, n) \/ u.pages[p].data[b] = PageByte(t, p, b)
        ELSE u.pages[p] = t.pages[p]

IsPrefix(a, b) == Len(a) <= Len(b) /\ SubSeq(b, 1, Len(a)) = a

\* Of two scans that both return, the earlier result begins the later one.
ScanPrefix(earlier, later) ==
    (earlier.exc = "" /\ later.exc = "") => IsPrefix(earlier.val, later.val)

\* C13: the table is append-only.  An insert that succeeds with num_rows = n
\* changes only the ROW_SIZE bytes of slot n; no step changes the stored bytes
\* of a row below num_rows, so what a scan returns before a step is a prefix
\* of what a scan returns after it.
C13_AppendOnly ==
    [][/\ (Appending' /\ last'.result = "SUCCESS") =>
              /\ table'.num_rows = table.num_rows + 1
              /\ OnlySlotChanged(table, table', table.num_rows)
       /\ table' # table =>
              /\ \A i \in 0..(table.num_rows - 1) :
                     /\ StoredBytes(table, i) # <<>>
                     /\ StoredBytes(table', i) = StoredBytes(table, i)
              /\ ScanPrefix(select_all(table), select_all(table'))]_vars

\* A second, different row has been written next to the first in page 0, and
\* a scan returns both.
C13_Witness ==
    /\ Appending
    /\ last.result = "SUCCESS"
    /\ table.num_rows = 2
    /\ StoredBytes(table, 0) # StoredBytes(table, 1)
    /\ select_all(table).exc = ""
    /\ Len(select_all(table).val) = 2

\* Two slots of ROW_SIZE bytes at these offsets share no byte.
DisjointSlots(offset, other) ==
    offset + ROW_SIZE <= other \/ other + ROW_SIZE <= offset

\* C14: slots stay inside their page and never overlap: for every row below
\* TABLE_MAX_ROWS the offset row_slot returns ends at or before PAGE_SIZE and
\* shares no byte with the slot of another row of the same page; an allocated
\* page is PAGE_SIZE bytes long after any number of inserts; and its last
\* PAGE_SIZE - ROWS_PER_PAGE * ROW_SIZE = 22 bytes are never written.
C14_SlotsInsidePages ==
    /\ PAGE_SIZE - ROWS_PER_PAGE * ROW_SIZE = 22
    /\ (call.fn = "row_slot" /\ call.arg < TABLE_MAX_ROWS) =>
           /\ call.exc = ""
           /\ call.val[2] >= 0
           /\ call.val[2] + ROW_SIZE <= ROWS_PER_PAGE * ROW_SIZE
           /\ call.val[2] + ROW_SIZE <= PAGE_SIZE
           /\ \A j \in 0..(TABLE_MAX_ROWS - 1) :
                  (j # call.arg
                   /\ j \div ROWS_PER_PAGE = call.arg \div ROWS_PER_PAGE) =>
                      /\ row_slot(table, j).val[1] = call.val[1]
                      /\ DisjointSlots(call.val[2], row_slot(table, j).val[2])
    /\ \A p \in AllocatedPages(table) :
           /\ Len(table.pages[p].data) = PAGE_SIZE
           /\ \A b \in (ROWS_PER_PAGE * ROW_SIZE + 1)..PAGE_SIZE :
                  table.pages[p].data[b] = 0

\* Page 0 is full and the first slot of page 1 is written: the last byte of
\* slot 13 is byte 4074 of page 0, and the 22 bytes after it are zero.
C14_Witness ==
    /\ call.fn = "insert_row"
    /\ call.exc = ""
    /\ table.num_rows = ROWS_PER_PAGE + 1
    /\ ROWS_PER_PAGE = 14
    /\ AllocatedPages(table) = {0, 1}
    /\ table.pages[0].data[4074] = 98
    /\ table.pages[0].data[4075] = 0
    /\ table.pages[1].data[ROW_SIZE] = 98
    /\ Len(table.pages[0].data) = 4096

\* The step from t to u allocated no page but page q, if any.
AllocatedOnly(t, u, q) ==
    \A p \in DOMAIN t.pages :
        (IsNone(t.pages[p]) /\ ~IsNone(u.pages[p])) => p = q

\* C15: row_slot allocates idempotently and nothing else allocates.  A call
\* for a row whose page exists returns the same (page, offset) as before and
\* leaves that page and every other slot as they were; a call for a row whose
\* page is absent puts one zero-filled page of PAGE_SIZE bytes into that slot
\* and changes no other slot.  A page appears only in the slot row_slot was
\* called for, by row_slot itself or by the row_slot call of insert_row.
C15_RowSlotAllocatesOnce ==
    [][/\ (call'.fn = "row_slot" /\ call'.exc = "") =>
              /\ table'.num_rows = table.num_rows
              /\ \A q \in DOMAIN table.pages \ {call'.val[1]} :
                     table'.pages[q] = table.pages[q]
              /\ IF IsNone(table.pages[call'.val[1]])
                 THEN /\ table'.pages[call'.val[1]].tag = "bytearray"
                      /\ Len(table'.pages[call'.val[1]].data) = PAGE_SIZE
                      /\ \A b \in 1..PAGE_SIZE :
                             table'.pages[call'.val[1]].data[b] = 0
                 ELSE table'.pages[call'.val[1]] = table.pages[call'.val[1]]
              /\ (call.fn = "row_slot" /\ call.arg = call'.arg /\ call.exc = "")
                     => call'.val = call.val
              /\ row_slot(table', call'.arg).val = call'.val
              /\ row_slot(table', call'.arg).table = table'
       /\ \/ /\ call'.fn = "row_slot"
             /\ AllocatedOnly(table, table', call'.arg \div ROWS_PER_PAGE)
          \/ /\ call'.fn = "insert_row"
             /\ AllocatedOnly(table, table', table.num_rows \div ROWS_PER_PAGE)
          \/ AllocatedPages(table') \subseteq AllocatedPages(table)]_vars

\* row_slot(14) after 14 inserts: page 1 is new and zero-filled, page 0 still
\* holds its rows.
C15_Witness ==
    /\ call.fn = "row_slot"
    /\ call.exc = ""
    /\ call.arg = ROWS_PER_PAGE
    /\ call.val = <<1, 0>>
    /\ table.num_rows = ROWS_PER_PAGE
    /\ AllocatedPages(table) = {0, 1}
    /\ table.pages[1] = ByteArray(PAGE_SIZE)
    /\ table.pages[0].data[1] = 255
    /\ table.pages[0].data[ROWS_PER_PAGE * ROW_SIZE] = 98

\* C16: insert_row is all-or-nothing: when it does not return (serialize
\* raises because the id does not fit an unsigned 32-bit integer or the text
\* cannot be encoded), num_rows, the set of allocated pages and the contents
\* of the pages are as before the call.
C16_FailedAppendChangesNothing ==
    [][(call'.fn = "insert_row" /\ call'.exc # "") => table' = table]_vars

\* Byte b of page p lies in the slot of a row below num_rows.
InStoredSlot(t, p, b) == \E i \in 0..(t.num_rows - 1) : InSlot(p, b, i)

\* C17: every byte of an allocated page that lies outside the slots of the
\* stored rows 0..num_rows-1 is zero.
C17_ZeroOutsideStoredRows ==
    \A p \in AllocatedPages(table) :
        \A b \in 1..Len(table.pages[p].data) :
            InStoredSlot(table, p, b) \/ table.pages[p].data[b] = 0

\* Page 0 is full, page 1 holds one row next to an empty slot, and an insert
\* has just failed without writing.
C17_Witness ==
    /\ Appending
    /\ last.exc # ""
    /\ table.num_rows = ROWS_PER_PAGE + 1
    /\ AllocatedPages(table) = {0, 1}
    /\ table.pages[1].data[1] # 0
    /\ ~InStoredSlot(table, 1, ROW_SIZE + 1)

\* C18: the command loop executes each line it reads at most once: at end of
\* input no statement is executed, so the line read before is not executed
\* again; and a line that fails to parse or is a meta command leaves num_rows
\* and the pages as they were.
C18_LineExecutedAtMostOnce ==
    [][/\ last'.read = "eof" =>
              (last'.path # "execute" /\ table' = table)
       /\ last'.path \in {"syntax_error", "unrecognized_statement",
                          "unrecognized_command", "exit"} =>
              table' = table]_vars

=============================================================================
